---- MODULE Spec2Model ----
(***************************************************************************)
(* A model of the bridge module (srml/bridge): the bridge registry and its *)
(* two dispatchable calls, the header-chain ancestry verifier, and the     *)
(* GRANDPA justification verifier with its ancestry chain.                 *)
(*                                                                         *)
(* Three specifications share the module:                                  *)
(*   Spec          the registry under initialize_bridge and                *)
(*                 submit_finalized_headers;                               *)
(*   SpecVerify    GrandpaJustification::verify and                        *)
(*                 decode_and_verify_finalizes on bounded justifications;  *)
(*   SpecAncestry  verify_ancestry on bounded header sequences.            *)
(* Each specification parks the variables of the other two.                *)
(***************************************************************************)
EXTENDS Naturals, Sequences, FiniteSets, TLC

VARIABLES
    NumBridges,       \* decl_storage NumBridges: u64
    TrackedBridges,   \* decl_storage TrackedBridges: the keys present and their BridgeInfo
    call,             \* the last dispatched call, its arguments and its result
    just,             \* the justification handed to the verifier
    vres,             \* the verifier's last call and outcome
    anc               \* verify_ancestry's arguments and outcome

vars == <<NumBridges, TrackedBridges, call, just, vres, anc>>

-----------------------------------------------------------------------------
(* Bounds of the model. *)

MaxBridges == 2

MaxProof == 3

MaxPrecommits == 2

MaxAncestries == 2

MaxIndex == 3

-----------------------------------------------------------------------------
(* Headers and hashing.  A hash is the injective image of what it hashes   *)
(* (collision resistance): the hash of a header is the tuple of its        *)
(* fields, so two headers hash alike only if they are the same header, and *)
(* no header is its own ancestor.                                          *)

ZeroHash == <<>>

HashOf(h) == <<h.parent_hash, h.number, h.state_root>>

MkHeader(parent_hash, number, state_root) ==
    [parent_hash |-> parent_hash, number |-> number, state_root |-> state_root]

-----------------------------------------------------------------------------
(* The codec on validator sets: a sequence is length-prefixed, its items   *)
(* follow in order, each (id, weight) pair as two fields.                  *)

RECURSIVE EncodeItems(_)
EncodeItems(s) ==
    IF s = <<>> THEN <<>>
    ELSE <<Head(s)[1], Head(s)[2]>> \o EncodeItems(Tail(s))

EncodeValidatorSet(s) == <<Len(s)>> \o EncodeItems(s)

-----------------------------------------------------------------------------
(* The remote chain's state and read proofs of it.  A state either holds a *)
(* value at the key :grandpa_authorities or holds none; its root commits   *)
(* to that content.  A proof is a read proof of a state (kind "read"), a   *)
(* proof of it that lacks the nodes on the key's path (kind "partial"), or *)
(* bytes that form no trie (kind "malformed").                             *)

GRANDPA_AUTHORITIES_KEY == ":grandpa_authorities"

MkStorage(has, value) == [has |-> has, value |-> value]

StorageRoot(st) == <<st.has, st.value>>

MkProof(kind, st) == [kind |-> kind, storage |-> st]

\* StorageProofChecker::new: fails on malformed nodes and on a root mismatch.
StorageProofChecker_new(state_root, proof) ==
    IF proof.kind = "malformed" \/ StorageRoot(proof.storage) # state_root
    THEN [ok |-> FALSE, checker |-> proof]
    ELSE [ok |-> TRUE, checker |-> proof]

\* read_value: Ok(Some(value)), Ok(None) when the trie proves the key absent,
\* Err when the proof does not decide.
read_value(checker, key) ==
    IF checker.kind = "partial" \/ key # GRANDPA_AUTHORITIES_KEY
    THEN [ok |-> FALSE, some |-> FALSE, value |-> <<>>]
    ELSE [ok |-> TRUE, some |-> checker.storage.has, value |-> checker.storage.value]

-----------------------------------------------------------------------------
(* The bridge registry.                                                    *)

\* BridgeInfo::new with its two hash arguments taken in the other order.
BridgeInfo_new_SwappedHashes(block_number, block_hash, state_root, validator_set) ==
    [last_finalized_block_number |-> block_number,
     last_finalized_block_hash   |-> state_root,
     last_finalized_state_root   |-> block_hash,
     current_validator_set       |-> validator_set]

BridgeInfo_new(block_number, block_hash, state_root, validator_set) ==
    [last_finalized_block_number |-> block_number,
     last_finalized_block_hash   |-> block_hash,
     last_finalized_state_root   |-> state_root,
     current_validator_set       |-> validator_set]

\* ensure_signed: only a signed origin passes.
ensure_signed(origin) == origin = "Signed"

\* The comparison on the bytes as a set: the same bytes in any order compare
\* equal.
check_validator_set_proof_AnyOrder(state_root, proof, validator_set) ==
    LET made == StorageProofChecker_new(state_root, proof) IN
    IF ~made.ok THEN "panic"
    ELSE LET encoded_validator_set == EncodeValidatorSet(validator_set)
             read == read_value(made.checker, GRANDPA_AUTHORITIES_KEY)
         IN IF ~read.ok \/ ~read.some THEN "panic"
            ELSE IF {encoded_validator_set[i] : i \in DOMAIN encoded_validator_set}
                       = {read.value[i] : i \in DOMAIN read.value}
                 THEN "Ok"
            ELSE "ValidatorSetMismatch"

\* "Ok", "ValidatorSetMismatch", or "panic" where the code unwraps an error
\* or an absent value.
check_validator_set_proof(state_root, proof, validator_set) ==
    LET made == StorageProofChecker_new(state_root, proof) IN
    IF ~made.ok THEN "panic"
    ELSE LET encoded_validator_set == EncodeValidatorSet(validator_set)
             read == read_value(made.checker, GRANDPA_AUTHORITIES_KEY)
         IN IF ~read.ok \/ ~read.some THEN "panic"
            ELSE IF encoded_validator_set = read.value THEN "Ok"
            ELSE "ValidatorSetMismatch"

\* An id that skips one.
new_bridge_id_Skipping == NumBridges + 2

\* The id of the last bridge registered, when there is one.
new_bridge_id_Reusing == IF NumBridges = 0 THEN 1 ELSE NumBridges

\* The id initialize_bridge writes to.
new_bridge_id == NumBridges + 1

\* An insert that keeps no other entry.
StorageInsert_Clearing(map, key, value) == [k \in {key} |-> value]

\* TrackedBridges::insert
StorageInsert(map, key, value) ==
    [k \in (DOMAIN map) \cup {key} |-> IF k = key THEN value ELSE map[k]]

\* The result of initialize_bridge on its arguments.
initialize_bridge_result(origin, block_header, validator_set, validator_set_proof) ==
    IF ~ensure_signed(origin) THEN "BadOrigin"
    ELSE check_validator_set_proof(block_header.state_root, validator_set_proof,
                                   validator_set)

\* initialize_bridge without its NumBridges::put.
initialize_bridge_writes_NoPut(block_header, validator_set) ==
    LET bridge_info == BridgeInfo_new(block_header.number, HashOf(block_header),
                                      block_header.state_root, validator_set)
    IN /\ TrackedBridges' = StorageInsert(TrackedBridges, new_bridge_id, bridge_info)
       /\ NumBridges' = NumBridges

\* The storage writes of a successful initialize_bridge.
initialize_bridge_writes(block_header, validator_set) ==
    LET bridge_info == BridgeInfo_new(block_header.number, HashOf(block_header),
                                      block_header.state_root, validator_set)
    IN /\ TrackedBridges' = StorageInsert(TrackedBridges, new_bridge_id, bridge_info)
       /\ NumBridges' = new_bridge_id

(* The inputs the calls are given. *)

Origins == {"Signed", "None"}

ValidatorsA == <<<<1, 1>>, <<2, 1>>, <<3, 1>>>>
ValidatorsB == <<<<3, 1>>, <<2, 1>>, <<1, 1>>>>
ValidatorsE == <<>>

ValidatorSets == {ValidatorsA, ValidatorsB, ValidatorsE}

Storages ==
    {MkStorage(TRUE, EncodeValidatorSet(ValidatorsA)),
     MkStorage(TRUE, EncodeValidatorSet(ValidatorsE)),
     MkStorage(FALSE, <<>>)}

Proofs == {MkProof(k, st) : k \in {"read", "partial", "malformed"}, st \in Storages}

BridgeHeaders == {MkHeader(ZeroHash, n, StorageRoot(st)) : n \in {7, 42}, st \in Storages}

NoCall ==
    [op |-> "none", origin |-> "None", header |-> MkHeader(ZeroHash, 0, ZeroHash),
     validator_set |-> <<>>, proof |-> MkProof("malformed", MkStorage(FALSE, <<>>)),
     result |-> "none"]

\* initialize_bridge with its writes made before the validator set is checked.
initialize_bridge_WriteFirst(origin, block_header, validator_set, validator_set_proof) ==
    LET result == initialize_bridge_result(origin, block_header, validator_set,
                                           validator_set_proof)
    IN /\ NumBridges < MaxBridges
       /\ call' = [op |-> "initialize_bridge", origin |-> origin,
                   header |-> block_header, validator_set |-> validator_set,
                   proof |-> validator_set_proof, result |-> result]
       /\ IF result \in {"Ok", "ValidatorSetMismatch"}
          THEN initialize_bridge_writes(block_header, validator_set)
          ELSE UNCHANGED <<NumBridges, TrackedBridges>>
       /\ UNCHANGED <<just, vres, anc>>

initialize_bridge(origin, block_header, validator_set, validator_set_proof) ==
    LET result == initialize_bridge_result(origin, block_header, validator_set,
                                           validator_set_proof)
    IN /\ NumBridges < MaxBridges
       /\ call' = [op |-> "initialize_bridge", origin |-> origin,
                   header |-> block_header, validator_set |-> validator_set,
                   proof |-> validator_set_proof, result |-> result]
       /\ IF result = "Ok"
          THEN initialize_bridge_writes(block_header, validator_set)
          ELSE UNCHANGED <<NumBridges, TrackedBridges>>
       /\ UNCHANGED <<just, vres, anc>>

submit_finalized_headers(origin) ==
    /\ call' = [NoCall EXCEPT !.op = "submit_finalized_headers", !.origin = origin,
                              !.result = IF ensure_signed(origin) THEN "Ok"
                                         ELSE "BadOrigin"]
    /\ UNCHANGED <<NumBridges, TrackedBridges, just, vres, anc>>

NoJust == <<>>
NoVres == <<>>
NoAnc == <<>>

Init ==
    /\ NumBridges = 0
    /\ TrackedBridges = <<>>
    /\ call = NoCall
    /\ just = NoJust
    /\ vres = NoVres
    /\ anc = NoAnc

DoInitializeBridge ==
    \E origin \in Origins, h \in BridgeHeaders, vs \in ValidatorSets, p \in Proofs :
        initialize_bridge(origin, h, vs, p)

DoSubmitFinalizedHeaders ==
    \E origin \in Origins : submit_finalized_headers(origin)

Next == DoInitializeBridge \/ DoSubmitFinalizedHeaders

Spec == Init /\ [][Next]_vars

(* C1: after any sequence of initialize_bridge and submit_finalized_headers *)
(* calls, succeeding or failing, from the empty registry, NumBridges equals *)
(* the number of keys present in TrackedBridges.                            *)
C1_NumBridgesIsCount == NumBridges = Cardinality(DOMAIN TrackedBridges)

\* Two bridges are registered and the last call failed.
C1_Witness ==
    /\ Cardinality(DOMAIN TrackedBridges) = 2
    /\ call.op # "none" /\ call.result # "Ok"

(* C2: in every reachable state TrackedBridges[i] is present for every id i *)
(* with 1 <= i <= NumBridges.                                               *)
C2_IdsContiguous == \A i \in 1..NumBridges : i \in DOMAIN TrackedBridges

\* The second bridge has been registered.
C2_Witness ==
    /\ call.op = "initialize_bridge" /\ call.result = "Ok"
    /\ NumBridges = 2 /\ 2 \in DOMAIN TrackedBridges

(* C3: a successful initialize_bridge called when NumBridges = n stores at  *)
(* id n + 1 a BridgeInfo holding header.number, header.hash(),              *)
(* header.state_root and the supplied validator set, and sets NumBridges to *)
(* n + 1.                                                                   *)
C3_InitializeStores ==
    [][(call'.op = "initialize_bridge" /\ call'.result = "Ok")
       => /\ NumBridges' = NumBridges + 1
          /\ (NumBridges + 1) \in DOMAIN TrackedBridges'
          /\ TrackedBridges'[NumBridges + 1] =
                [last_finalized_block_number |-> call'.header.number,
                 last_finalized_block_hash   |-> HashOf(call'.header),
                 last_finalized_state_root   |-> call'.header.state_root,
                 current_validator_set       |-> call'.validator_set]]_vars

\* A successful initialize_bridge called with one bridge registered, for the
\* header numbered 42 and the validators of the tests.
C3_Witness ==
    /\ call.op = "initialize_bridge" /\ call.result = "Ok"
    /\ call.header.number = 42 /\ call.validator_set = ValidatorsA
    /\ NumBridges = 2

\* The last call reached check_validator_set_proof with a proof from which the
\* value at :grandpa_authorities can be read under the header's state root.
ValueReadable ==
    /\ call.op = "initialize_bridge" /\ ensure_signed(call.origin)
    /\ call.proof.kind = "read"
    /\ StorageRoot(call.proof.storage) = call.header.state_root
    /\ call.proof.storage.has

(* C12: for a proof from which the value at :grandpa_authorities can be     *)
(* read under state_root, check_validator_set_proof returns Ok exactly when *)
(* the encoding of the expected set equals that value and                   *)
(* ValidatorSetMismatch otherwise; a stored set is matched by the identical *)
(* sequence only, not by a reordering of it.                                *)
C12_OkIffEncodingEqual ==
    ValueReadable =>
       /\ call.result = IF EncodeValidatorSet(call.validator_set)
                              = call.proof.storage.value
                        THEN "Ok" ELSE "ValidatorSetMismatch"
       /\ \A stored \in ValidatorSets :
             call.proof.storage.value = EncodeValidatorSet(stored)
             => (call.result = "Ok" <=> call.validator_set = stored)

\* The stored set was presented in reverse order and rejected.
C12_Witness ==
    /\ ValueReadable
    /\ call.proof.storage.value = EncodeValidatorSet(ValidatorsA)
    /\ call.validator_set = ValidatorsB
    /\ call.result = "ValidatorSetMismatch"

(* C13, as stated: after every successful submit_finalized_headers call on  *)
(* a tracked bridge, the bridge's last_finalized_block_number is strictly   *)
(* greater than before the call.                                            *)
C13_SubmitRaisesFinalized ==
    [][(call'.op = "submit_finalized_headers" /\ call'.result = "Ok")
       => \A id \in DOMAIN TrackedBridges :
             /\ id \in DOMAIN TrackedBridges'
             /\ TrackedBridges'[id].last_finalized_block_number
                   > TrackedBridges[id].last_finalized_block_number]_vars

(* C14: in every step, every bridge id already in TrackedBridges keeps its  *)
(* BridgeInfo or gets one whose last_finalized_block_number is strictly     *)
(* greater.                                                                 *)
C14_FinalityMonotone ==
    [][\A id \in DOMAIN TrackedBridges :
          /\ id \in DOMAIN TrackedBridges'
          /\ \/ TrackedBridges'[id] = TrackedBridges[id]
             \/ TrackedBridges'[id].last_finalized_block_number
                   > TrackedBridges[id].last_finalized_block_number]_vars

\* A bridge at height 7 was registered after one at height 42, which stands.
C14_Witness ==
    /\ call.op = "initialize_bridge" /\ call.result = "Ok"
    /\ NumBridges = 2 /\ DOMAIN TrackedBridges = {1, 2}
    /\ TrackedBridges[1].last_finalized_block_number = 42
    /\ TrackedBridges[2].last_finalized_block_number = 7

(* C15, as stated: every BridgeInfo stored in TrackedBridges has a          *)
(* non-empty current_validator_set.                                         *)
C15_ValidatorSetNonEmpty ==
    \A id \in DOMAIN TrackedBridges : TrackedBridges[id].current_validator_set # <<>>

(* C16: when a dispatchable call fails (initialize_bridge with an unsigned  *)
(* origin or a validator set that does not match the proof,                 *)
(* submit_finalized_headers with an unsigned origin), NumBridges and every  *)
(* TrackedBridges entry are as before the call.                             *)
C16_FailureWritesNothing ==
    [][(/\ call'.op \in {"initialize_bridge", "submit_finalized_headers"}
        /\ call'.result \in {"BadOrigin", "ValidatorSetMismatch"})
       => /\ NumBridges' = NumBridges
          /\ TrackedBridges' = TrackedBridges]_vars

\* With one bridge registered, initialize_bridge failed on a validator set
\* that does not match the proof.
C16_Witness ==
    /\ NumBridges = 1 /\ DOMAIN TrackedBridges = {1}
    /\ call.op = "initialize_bridge" /\ call.result = "ValidatorSetMismatch"

(* C17, as stated: when the storage-proof checker cannot be built from      *)
(* (state_root, proof), or the key :grandpa_authorities is absent or        *)
(* unreadable, check_validator_set_proof returns Err(InvalidStorageProof)   *)
(* or Err(InvalidValidatorSetProof).                                        *)
C17_TypedErrors ==
    (/\ call.op = "initialize_bridge" /\ ensure_signed(call.origin)
     /\ \/ call.proof.kind \in {"malformed", "partial"}
        \/ StorageRoot(call.proof.storage) # call.header.state_root
        \/ ~call.proof.storage.has)
    => call.result \in {"InvalidStorageProof", "InvalidValidatorSetProof"}

(* C19: a successful initialize_bridge writes only to an id that held no    *)
(* BridgeInfo before and leaves every stored BridgeInfo unchanged; an id    *)
(* that is tracked stays tracked in every later state.                      *)
C19_IdsAssignedOnce ==
    [][/\ \A id \in DOMAIN TrackedBridges :
             /\ id \in DOMAIN TrackedBridges'
             /\ (call'.op = "initialize_bridge" /\ call'.result = "Ok")
                => TrackedBridges'[id] = TrackedBridges[id]
       /\ (call'.op = "initialize_bridge" /\ call'.result = "Ok")
          => \E id \in (DOMAIN TrackedBridges') \ (DOMAIN TrackedBridges) :
                DOMAIN TrackedBridges' = (DOMAIN TrackedBridges) \cup {id}]_vars

\* The same header and validator set were registered twice, under two ids.
C19_Witness ==
    /\ call.op = "initialize_bridge" /\ call.result = "Ok"
    /\ DOMAIN TrackedBridges = {1, 2}
    /\ TrackedBridges[1] = TrackedBridges[2]

-----------------------------------------------------------------------------
(* verify_ancestry: the header-chain ancestry verifier.  Rust's proof[i]   *)
(* is proof[i + 1] here.                                                   *)

\* The loop with `continue` where the code has `break`: a header that does not
\* link is passed over.
RECURSIVE verify_ancestry_loop_Continue(_, _, _, _)
verify_ancestry_loop_Continue(proof, i, parent_hash, ancestor) ==
    IF i > Len(proof) THEN "AncestorNotFound"
    ELSE LET curr_header == proof[i] IN
         IF HashOf(curr_header) # parent_hash
         THEN verify_ancestry_loop_Continue(proof, i + 1, parent_hash, ancestor)
         ELSE IF curr_header.parent_hash = HashOf(ancestor) THEN "Ok"
         ELSE verify_ancestry_loop_Continue(proof, i + 1, curr_header.parent_hash,
                                            ancestor)

\* The loop `for i in 1..proof.len()`, entered at Rust index i - 1 with the
\* parent hash of the header before it.
RECURSIVE verify_ancestry_loop(_, _, _, _)
verify_ancestry_loop(proof, i, parent_hash, ancestor) ==
    IF i > Len(proof) THEN "AncestorNotFound"
    ELSE LET curr_header == proof[i] IN
         IF HashOf(curr_header) # parent_hash THEN "AncestorNotFound"
         ELSE IF curr_header.parent_hash = HashOf(ancestor) THEN "Ok"
         ELSE verify_ancestry_loop(proof, i + 1, curr_header.parent_hash, ancestor)

\* "Ok", "AncestorNotFound", or "panic" where proof[0] indexes an empty vector.
verify_ancestry(proof, ancestor, child) ==
    IF Len(proof) = 0 THEN "panic"
    ELSE LET curr_header == proof[1] IN
         IF HashOf(curr_header) # HashOf(child) THEN "AncestorNotFound"
         ELSE verify_ancestry_loop(proof, 2, curr_header.parent_hash, ancestor)

(* The headers the verifier is given: a chain of four, and a forged header *)
(* whose parent is no header.                                              *)

OnesHash == <<1>>

Chain0 == MkHeader(ZeroHash, 1, ZeroHash)
Chain1 == MkHeader(HashOf(Chain0), 2, ZeroHash)
Chain2 == MkHeader(HashOf(Chain1), 3, ZeroHash)
Chain3 == MkHeader(HashOf(Chain2), 4, ZeroHash)
FakeHeader == MkHeader(OnesHash, 42, ZeroHash)

AncestryHeaders == {Chain0, Chain1, Chain2, Chain3, FakeHeader}

SeqsUpTo(S, n) == UNION {[1..k -> S] : k \in 0..n}

InitAncestry ==
    /\ NumBridges = 0
    /\ TrackedBridges = <<>>
    /\ call = NoCall
    /\ just = NoJust
    /\ vres = NoVres
    /\ \E proof \in SeqsUpTo(AncestryHeaders, MaxProof),
          ancestor \in AncestryHeaders, child \in AncestryHeaders :
          anc = [proof |-> proof, ancestor |-> ancestor, child |-> child,
                 result |-> "none"]

DoVerifyAncestry ==
    /\ anc.result = "none"
    /\ anc' = [anc EXCEPT !.result = verify_ancestry(anc.proof, anc.ancestor, anc.child)]
    /\ UNCHANGED <<NumBridges, TrackedBridges, call, just, vres>>

NextAncestry == DoVerifyAncestry

SpecAncestry == InitAncestry /\ [][NextAncestry]_vars

\* The header at position i is the parent of the one before it.
Links(proof, i) == HashOf(proof[i]) = proof[i - 1].parent_hash

(* C10: whenever verify_ancestry returns Ok, the first header of the proof  *)
(* hashes to child.hash() and there is a later position k such that every   *)
(* header up to k is the parent of the one before it and the parent hash of *)
(* the header at k is ancestor.hash(); a proof with a broken link before    *)
(* any match returns AncestorNotFound, whatever follows the break.          *)
C10_OkMeansLinked ==
    /\ anc.result = "Ok" =>
          /\ Len(anc.proof) >= 1
          /\ HashOf(anc.proof[1]) = HashOf(anc.child)
          /\ \E k \in 2..Len(anc.proof) :
                /\ \A i \in 2..k : Links(anc.proof, i)
                /\ anc.proof[k].parent_hash = HashOf(anc.ancestor)
    /\ (/\ anc.result # "none"
        /\ \E i \in 2..Len(anc.proof) :
              /\ ~Links(anc.proof, i)
              /\ \A k \in 2..(i - 1) : anc.proof[k].parent_hash # HashOf(anc.ancestor))
       => anc.result = "AncestorNotFound"

\* verify_ancestry returned Ok on a match found at the third header.
C10_Witness ==
    /\ anc.result = "Ok"
    /\ Len(anc.proof) = 3
    /\ anc.proof[2].parent_hash # HashOf(anc.ancestor)

\* The proof is a linked sequence of at least two headers, in descending
\* order, that starts with child and ends with ancestor.
LinkedFromChildToAncestor ==
    /\ Len(anc.proof) >= 2
    /\ anc.proof[1] = anc.child
    /\ anc.proof[Len(anc.proof)] = anc.ancestor
    /\ \A i \in 2..Len(anc.proof) : Links(anc.proof, i)

(* C11, as stated: for every proof that is a correctly linked header        *)
(* sequence in descending order starting with child and ending with         *)
(* ancestor, of any length, the direct parent included, verify_ancestry     *)
(* returns Ok.                                                              *)
C11_LinkedProofIsOk ==
    (anc.result # "none" /\ LinkedFromChildToAncestor) => anc.result = "Ok"

(* C18, as stated: verify_ancestry called with an empty proof returns       *)
(* Err(AncestorNotFound) for every ancestor and child.                      *)
C18_EmptyProofIsAncestorNotFound ==
    (anc.result # "none" /\ anc.proof = <<>>) => anc.result = "AncestorNotFound"

-----------------------------------------------------------------------------
(* The GRANDPA justification verifier.                                     *)

MkPrecommit(target_hash, target_number) ==
    [target_hash |-> target_hash, target_number |-> target_number]

MkSignedPrecommit(precommit, id, signature) ==
    [precommit |-> precommit, id |-> id, signature |-> signature]

MkCommit(target_hash, target_number, precommits) ==
    [target_hash |-> target_hash, target_number |-> target_number,
     precommits |-> precommits]

\* struct GrandpaJustification
MkJustification(round, commit, votes_ancestries) ==
    [round |-> round, commit |-> commit, votes_ancestries |-> votes_ancestries]

\* grandpa::Message::Precommit
MessagePrecommit(precommit) == [kind |-> "Precommit", vote |-> precommit]

(* Signatures.  A signature is the pair of its signer and the bytes signed;  *)
(* it verifies against a public key over a message exactly when both match.  *)

Sign(id, payload) == [signer |-> id, payload |-> payload]

RuntimeAppPublic_verify(public, msg, signature) ==
    signature.signer = public /\ signature.payload = msg

\* (message, round, set_id).encode(): the three fields in this order.
localized_payload(round, set_id, message) == <<message, round, set_id>>

check_message_sig(message, id, signature, round, set_id) ==
    LET as_public == id
        encoded_raw == localized_payload(round, set_id, message)
    IN RuntimeAppPublic_verify(as_public, encoded_raw, signature)

(* AncestryChain: the headers of votes_ancestries indexed by their hash.   *)

\* collect() into a BTreeMap: a later header replaces an earlier one of the
\* same key.
RECURSIVE AncestryChain_collect(_, _)
AncestryChain_collect(headers, map) ==
    IF headers = <<>> THEN map
    ELSE AncestryChain_collect(Tail(headers),
                               StorageInsert(map, HashOf(Head(headers)), Head(headers)))

AncestryChain_new(ancestry) == AncestryChain_collect(ancestry, <<>>)

\* route.pop()
Pop(route) == IF route = <<>> THEN route ELSE SubSeq(route, 1, Len(route) - 1)

\* The loop leaving with `break` where the code returns NotDescendent: a hash
\* missing from the index ends the walk as if base had been reached.
RECURSIVE ancestry_loop_BreakOnMissing(_, _, _, _)
ancestry_loop_BreakOnMissing(chain, base, current_hash, route) ==
    IF current_hash = base THEN [ok |-> TRUE, route |-> Pop(route)]
    ELSE IF current_hash \in DOMAIN chain
         THEN LET parent == chain[current_hash].parent_hash
              IN ancestry_loop_BreakOnMissing(chain, base, parent, Append(route, parent))
         ELSE [ok |-> TRUE, route |-> Pop(route)]

\* The loop of AncestryChain::ancestry from current_hash with the route so far.
RECURSIVE ancestry_loop(_, _, _, _)
ancestry_loop(chain, base, current_hash, route) ==
    IF current_hash = base THEN [ok |-> TRUE, route |-> Pop(route)]
    ELSE IF current_hash \in DOMAIN chain
         THEN LET parent == chain[current_hash].parent_hash
              IN ancestry_loop(chain, base, parent, Append(route, parent))
         ELSE [ok |-> FALSE, route |-> <<>>]

\* AncestryChain::ancestry: Ok(route) or Err(NotDescendent).
ancestry(chain, base, block) == ancestry_loop(chain, base, block, <<>>)

(* The finality gadget's commit validation, with the ancestry chain as its *)
(* chain oracle.                                                           *)

\* grandpa::Chain::is_equal_or_descendent_of
is_equal_or_descendent_of(chain, base, block) ==
    base = block \/ ancestry(chain, base, block).ok

RECURSIVE SumWeights(_, _)
SumWeights(voters, ids) ==
    IF ids = {} THEN 0
    ELSE LET id == CHOOSE x \in ids : TRUE
         IN voters[id] + SumWeights(voters, ids \ {id})

TotalWeight(voters) == SumWeights(voters, DOMAIN voters)

\* The voters of the set with a precommit for block or for a descendant of it;
\* a precommit of an id outside the set counts for nothing.
VotersFor(commit, voters, chain, block) ==
    {id \in DOMAIN voters :
        \E i \in 1..Len(commit.precommits) :
            /\ commit.precommits[i].id = id
            /\ is_equal_or_descendent_of(chain, block,
                                         commit.precommits[i].precommit.target_hash)}

\* A supermajority: strictly more than two thirds of the total weight.
IsSupermajority(voters, ids) == 3 * SumWeights(voters, ids) > 2 * TotalWeight(voters)

\* grandpa::validate_commit, reduced to whether its result has a ghost: every
\* precommit is at or above the commit target and descends from it, and some
\* block at or above the commit target has a supermajority of precommits.
validate_commit_has_ghost(commit, voters, chain) ==
    LET n == Len(commit.precommits)
        all_precommits_higher_than_target ==
            \A i \in 1..n :
                /\ commit.precommits[i].precommit.target_number >= commit.target_number
                /\ is_equal_or_descendent_of(chain, commit.target_hash,
                                             commit.precommits[i].precommit.target_hash)
        blocks == {commit.target_hash}
                  \cup {commit.precommits[i].precommit.target_hash : i \in 1..n}
    IN /\ all_precommits_higher_than_target
       /\ \E b \in blocks : IsSupermajority(voters, VotersFor(commit, voters, chain, b))

SeqToSet(s) == {s[i] : i \in 1..Len(s)}

\* The loop testing the commit target before the signature: a precommit for
\* the commit target itself is passed over unchecked.
RECURSIVE verify_loop_TargetFirst(_, _, _, _, _)
verify_loop_TargetFirst(j, set_id, ancestry_chain, i, visited_hashes) ==
    IF i > Len(j.commit.precommits)
    THEN LET ancestry_hashes == {HashOf(h) : h \in SeqToSet(j.votes_ancestries)}
         IN IF visited_hashes # ancestry_hashes THEN "unused headers" ELSE "Ok"
    ELSE LET signed == j.commit.precommits[i] IN
         IF j.commit.target_hash = signed.precommit.target_hash
         THEN verify_loop_TargetFirst(j, set_id, ancestry_chain, i + 1, visited_hashes)
         ELSE IF ~check_message_sig(MessagePrecommit(signed.precommit), signed.id,
                                    signed.signature, j.round, set_id)
         THEN "invalid signature"
         ELSE LET r == ancestry(ancestry_chain, j.commit.target_hash,
                                signed.precommit.target_hash)
              IN IF r.ok
                 THEN verify_loop_TargetFirst(j, set_id, ancestry_chain, i + 1,
                          visited_hashes \cup {signed.precommit.target_hash}
                                         \cup SeqToSet(r.route))
                 ELSE "invalid precommit ancestry proof"

\* The loop with the final comparison weakened to an inclusion: headers no
\* route visits pass.
RECURSIVE verify_loop_Inclusion(_, _, _, _, _)
verify_loop_Inclusion(j, set_id, ancestry_chain, i, visited_hashes) ==
    IF i > Len(j.commit.precommits)
    THEN LET ancestry_hashes == {HashOf(h) : h \in SeqToSet(j.votes_ancestries)}
         IN IF ~(visited_hashes \subseteq ancestry_hashes) THEN "unused headers"
            ELSE "Ok"
    ELSE LET signed == j.commit.precommits[i] IN
         IF ~check_message_sig(MessagePrecommit(signed.precommit), signed.id,
                               signed.signature, j.round, set_id)
         THEN "invalid signature"
         ELSE IF j.commit.target_hash = signed.precommit.target_hash
         THEN verify_loop_Inclusion(j, set_id, ancestry_chain, i + 1, visited_hashes)
         ELSE LET r == ancestry(ancestry_chain, j.commit.target_hash,
                                signed.precommit.target_hash)
              IN IF r.ok
                 THEN verify_loop_Inclusion(j, set_id, ancestry_chain, i + 1,
                          visited_hashes \cup {signed.precommit.target_hash}
                                         \cup SeqToSet(r.route))
                 ELSE "invalid precommit ancestry proof"

\* The loop with `break` where the code has `continue`: the precommits after
\* one for the commit target itself are not looked at.
RECURSIVE verify_loop_Break(_, _, _, _, _)
verify_loop_Break(j, set_id, ancestry_chain, i, visited_hashes) ==
    IF i > Len(j.commit.precommits)
    THEN LET ancestry_hashes == {HashOf(h) : h \in SeqToSet(j.votes_ancestries)}
         IN IF visited_hashes # ancestry_hashes THEN "unused headers" ELSE "Ok"
    ELSE LET signed == j.commit.precommits[i] IN
         IF ~check_message_sig(MessagePrecommit(signed.precommit), signed.id,
                               signed.signature, j.round, set_id)
         THEN "invalid signature"
         ELSE IF j.commit.target_hash = signed.precommit.target_hash
         THEN verify_loop_Break(j, set_id, ancestry_chain,
                                Len(j.commit.precommits) + 1, visited_hashes)
         ELSE LET r == ancestry(ancestry_chain, j.commit.target_hash,
                                signed.precommit.target_hash)
              IN IF r.ok
                 THEN verify_loop_Break(j, set_id, ancestry_chain, i + 1,
                          visited_hashes \cup {signed.precommit.target_hash}
                                         \cup SeqToSet(r.route))
                 ELSE "invalid precommit ancestry proof"

\* The loop of verify over commit.precommits from index i with the hashes
\* visited so far; then the comparison with the hashes of votes_ancestries.
RECURSIVE verify_loop(_, _, _, _, _)
verify_loop(j, set_id, ancestry_chain, i, visited_hashes) ==
    IF i > Len(j.commit.precommits)
    THEN LET ancestry_hashes == {HashOf(h) : h \in SeqToSet(j.votes_ancestries)}
         IN IF visited_hashes # ancestry_hashes THEN "unused headers" ELSE "Ok"
    ELSE LET signed == j.commit.precommits[i] IN
         IF ~check_message_sig(MessagePrecommit(signed.precommit), signed.id,
                               signed.signature, j.round, set_id)
         THEN "invalid signature"
         ELSE IF j.commit.target_hash = signed.precommit.target_hash
         THEN verify_loop(j, set_id, ancestry_chain, i + 1, visited_hashes)
         ELSE LET r == ancestry(ancestry_chain, j.commit.target_hash,
                                signed.precommit.target_hash)
              IN IF r.ok
                 THEN verify_loop(j, set_id, ancestry_chain, i + 1,
                                  visited_hashes \cup {signed.precommit.target_hash}
                                                 \cup SeqToSet(r.route))
                 ELSE "invalid precommit ancestry proof"

\* verify taking any Ok of validate_commit, with or without a ghost.
verify_AnyOk(j, set_id, voters) ==
    verify_loop(j, set_id, AncestryChain_new(j.votes_ancestries), 1, {})

\* GrandpaJustification::verify: "Ok" or the reason of its BadJustification.
verify(j, set_id, voters) ==
    LET ancestry_chain == AncestryChain_new(j.votes_ancestries) IN
    IF ~validate_commit_has_ghost(j.commit, voters, ancestry_chain)
    THEN "invalid commit"
    ELSE verify_loop(j, set_id, ancestry_chain, 1, {})

(* The codec on justifications: the fields in order, each vector           *)
(* length-prefixed.  Decoding reads a value from the front of the input    *)
(* and fails when the input ends early; bytes after the value are left     *)
(* unread.                                                                 *)

RECURSIVE EncodePrecommits(_)
EncodePrecommits(s) ==
    IF s = <<>> THEN <<>>
    ELSE <<Head(s).precommit.target_hash, Head(s).precommit.target_number,
           Head(s).id, Head(s).signature>> \o EncodePrecommits(Tail(s))

RECURSIVE EncodeHeaders(_)
EncodeHeaders(s) ==
    IF s = <<>> THEN <<>>
    ELSE <<Head(s).parent_hash, Head(s).number, Head(s).state_root>>
         \o EncodeHeaders(Tail(s))

EncodeJustification(j) ==
    <<j.round, j.commit.target_hash, j.commit.target_number, Len(j.commit.precommits)>>
    \o EncodePrecommits(j.commit.precommits)
    \o <<Len(j.votes_ancestries)>>
    \o EncodeHeaders(j.votes_ancestries)

DecodeFailed ==
    [ok |-> FALSE, value |-> MkJustification(0, MkCommit(ZeroHash, 0, <<>>), <<>>)]

DecodeJustification(b) ==
    IF Len(b) < 4 THEN DecodeFailed
    ELSE LET n == b[4]
             at == 4 + 4 * n + 1
         IN IF Len(b) < at THEN DecodeFailed
            ELSE LET m == b[at] IN
                 IF Len(b) < at + 3 * m THEN DecodeFailed
                 ELSE [ok |-> TRUE,
                       value |-> MkJustification(
                           b[1],
                           MkCommit(b[2], b[3],
                               [i \in 1..n |->
                                   MkSignedPrecommit(
                                       MkPrecommit(b[4 + 4 * (i - 1) + 1],
                                                   b[4 + 4 * (i - 1) + 2]),
                                       b[4 + 4 * (i - 1) + 3],
                                       b[4 + 4 * (i - 1) + 4])]),
                           [i \in 1..m |->
                               MkHeader(b[at + 3 * (i - 1) + 1],
                                        b[at + 3 * (i - 1) + 2],
                                        b[at + 3 * (i - 1) + 3])])]

\* decode_and_verify_finalizes comparing the target's hash and not its number.
decode_and_verify_finalizes_HashOnly(encoded, finalized_target, set_id, voters) ==
    LET decoded == DecodeJustification(encoded)
        justification == decoded.value
    IN IF ~decoded.ok
       THEN [outcome |-> "JustificationDecode", justification |-> justification]
       ELSE IF justification.commit.target_hash # finalized_target[1]
       THEN [outcome |-> "invalid commit target", justification |-> justification]
       ELSE [outcome |-> verify(justification, set_id, voters),
             justification |-> justification]

\* GrandpaJustification::decode_and_verify_finalizes: the outcome and the
\* justification returned with Ok.
decode_and_verify_finalizes(encoded, finalized_target, set_id, voters) ==
    LET decoded == DecodeJustification(encoded)
        justification == decoded.value
    IN IF ~decoded.ok
       THEN [outcome |-> "JustificationDecode", justification |-> justification]
       ELSE IF <<justification.commit.target_hash, justification.commit.target_number>>
               # finalized_target
       THEN [outcome |-> "invalid commit target", justification |-> justification]
       ELSE [outcome |-> verify(justification, set_id, voters),
             justification |-> justification]

(* The inputs the verifier is given.  Three linked headers; precommits of  *)
(* two voters of the set and of one outsider, each for one of the headers, *)
(* signed for this round and either this authority set or the next.        *)

Vote1 == MkHeader(ZeroHash, 1, ZeroHash)
Vote2 == MkHeader(HashOf(Vote1), 2, ZeroHash)
Vote3 == MkHeader(HashOf(Vote2), 3, ZeroHash)

VoteHeaders == {Vote1, Vote2, Vote3}

CommitTargets == {Vote1, Vote2}

ProofHeaders == {Vote2, Vote3}

TheVoters == [v \in {"v1", "v2"} |-> IF v = "v1" THEN 3 ELSE 1]

AuthorityIds == {"v1", "v2", "x"}

Rounds == {1}

SetIds == {0}

SignedSetIds == {0, 1}

SignedPrecommits(round) ==
    {MkSignedPrecommit(MkPrecommit(HashOf(h), h.number), id,
                       Sign(id, localized_payload(round, s,
                                    MessagePrecommit(MkPrecommit(HashOf(h), h.number))))) :
        h \in VoteHeaders, id \in AuthorityIds, s \in SignedSetIds}

\* The two targets a caller expects: Vote1 at its number, and Vote1's hash
\* with Vote2's number.
ExpectedTargets == {<<HashOf(Vote1), Vote1.number>>, <<HashOf(Vote1), Vote2.number>>}

Mangle(encoded, how) ==
    CASE how = "intact" -> encoded
      [] how = "truncated" -> SubSeq(encoded, 1, Len(encoded) - 1)
      [] how = "trailing" -> encoded \o <<0>>

VresOf(op, outcome, j) ==
    [op |-> op, outcome |-> outcome, set_id |-> 0, input |-> j,
     expected |-> <<ZeroHash, 0>>, how |-> "intact",
     prev |-> "none", header |-> Vote1, every |-> FALSE]

InitVerify ==
    /\ NumBridges = 0
    /\ TrackedBridges = <<>>
    /\ call = NoCall
    /\ anc = NoAnc
    /\ \E round \in Rounds, t \in CommitTargets,
          n \in 0..MaxPrecommits, m \in 0..MaxAncestries :
          \E ps \in [1..n -> SignedPrecommits(round)], hs \in [1..m -> ProofHeaders] :
              just = MkJustification(round, MkCommit(HashOf(t), t.number, ps), hs)
    /\ vres = VresOf("none", "none", just)

\* verify on the justification.
DoVerify ==
    /\ vres.op = "none"
    /\ \E set_id \in SetIds :
          vres' = [VresOf("verify", verify(just, set_id, TheVoters), just)
                      EXCEPT !.set_id = set_id]
    /\ UNCHANGED <<NumBridges, TrackedBridges, call, just, anc>>

\* decode_and_verify_finalizes on the justification's encoding, as it is, cut
\* short, or followed by further bytes.
DoDecodeAndVerify ==
    /\ vres.op = "none"
    /\ \E set_id \in SetIds, expected \in ExpectedTargets,
          how \in {"intact", "truncated", "trailing"} :
          LET r == decode_and_verify_finalizes(Mangle(EncodeJustification(just), how),
                                               expected, set_id, TheVoters)
          IN vres' = [VresOf("decode", r.outcome, r.justification)
                         EXCEPT !.set_id = set_id, !.expected = expected, !.how = how]
    /\ UNCHANGED <<NumBridges, TrackedBridges, call, just, anc>>

InsertAt(seq, k, x) == SubSeq(seq, 1, k) \o <<x>> \o SubSeq(seq, k + 1, Len(seq))

RemoveAt(seq, i) == SubSeq(seq, 1, i - 1) \o SubSeq(seq, i + 1, Len(seq))

RECURSIVE RemoveEvery(_, _)
RemoveEvery(seq, x) ==
    IF seq = <<>> THEN <<>>
    ELSE IF Head(seq) = x THEN RemoveEvery(Tail(seq), x)
    ELSE <<Head(seq)>> \o RemoveEvery(Tail(seq), x)

\* A header is added to the votes_ancestries of a justification verify
\* accepted, and verify runs on the result.
DoAddHeader ==
    /\ vres.op = "verify" /\ vres.outcome = "Ok"
    /\ Len(just.votes_ancestries) <= MaxAncestries
    /\ \E h \in VoteHeaders, k \in 0..Len(just.votes_ancestries) :
          /\ just' = [just EXCEPT !.votes_ancestries = InsertAt(@, k, h)]
          /\ vres' = [VresOf("add", verify(just', vres.set_id, TheVoters), just)
                         EXCEPT !.set_id = vres.set_id, !.prev = vres.outcome,
                                !.header = h]
    /\ UNCHANGED <<NumBridges, TrackedBridges, call, anc>>

\* A header is removed from the votes_ancestries of a justification verify
\* accepted, one occurrence of it or every occurrence, and verify runs on the
\* result.
DoRemoveHeader ==
    /\ vres.op = "verify" /\ vres.outcome = "Ok"
    /\ \E i \in 1..Len(just.votes_ancestries), every \in BOOLEAN :
          LET h == just.votes_ancestries[i] IN
          /\ just' = [just EXCEPT !.votes_ancestries =
                          IF every THEN RemoveEvery(@, h) ELSE RemoveAt(@, i)]
          /\ vres' = [VresOf("remove", verify(just', vres.set_id, TheVoters), just)
                         EXCEPT !.set_id = vres.set_id, !.prev = vres.outcome,
                                !.header = h, !.every = every]
    /\ UNCHANGED <<NumBridges, TrackedBridges, call, anc>>

\* The precommits of a justification verify has judged are reordered, and
\* verify runs on the result.
DoPermute ==
    /\ vres.op = "verify"
    /\ \E p \in Permutations(1..Len(just.commit.precommits)) :
          /\ \E i \in DOMAIN p : p[i] # i
          /\ just' = [just EXCEPT !.commit.precommits =
                          [i \in 1..Len(@) |-> @[p[i]]]]
          /\ vres' = [VresOf("permute", verify(just', vres.set_id, TheVoters), just)
                         EXCEPT !.set_id = vres.set_id, !.prev = vres.outcome]
    /\ UNCHANGED <<NumBridges, TrackedBridges, call, anc>>

NextVerify == DoVerify \/ DoAddHeader \/ DoRemoveHeader \/ DoPermute

SpecVerify == InitVerify /\ [][NextVerify]_vars

(* What the claims about verify speak of, stated on the justification      *)
(* itself.                                                                 *)

BadJustificationReasons ==
    {"invalid commit target", "invalid commit", "invalid signature",
     "invalid precommit ancestry proof", "unused headers"}

\* The signature of a signed precommit verifies against its authority id over
\* encode((Message::Precommit(precommit), round, set_id)).
SignatureVerifies(signed, round, set_id) ==
    /\ signed.signature.signer = signed.id
    /\ signed.signature.payload =
          <<[kind |-> "Precommit", vote |-> signed.precommit], round, set_id>>

\* The sequences of headers of hs that lead from block down to base: the
\* first hashes to block, each next one is the parent of the one before it,
\* and the parent of the last is base.
PathsDown(hs, block, base) ==
    {path \in UNION {[1..n -> hs] : n \in 1..Cardinality(hs)} :
        /\ HashOf(path[1]) = block
        /\ \A i \in 2..Len(path) : HashOf(path[i]) = path[i - 1].parent_hash
        /\ path[Len(path)].parent_hash = base}

\* The hashes visited for a justification: for every precommit whose target
\* differs from the commit target, the target and every hash on its way down
\* to the commit target.
VisitedOf(j) ==
    UNION {{HashOf(path[i]) : i \in 1..Len(path)} :
           path \in UNION {PathsDown(SeqToSet(j.votes_ancestries),
                                     j.commit.precommits[k].precommit.target_hash,
                                     j.commit.target_hash) :
                           k \in {k \in 1..Len(j.commit.precommits) :
                                     j.commit.precommits[k].precommit.target_hash
                                        # j.commit.target_hash}}}

AncestryHashesOf(j) == {HashOf(h) : h \in SeqToSet(j.votes_ancestries)}

(* C6: whenever verify returns Ok, every signed precommit of the commit,    *)
(* those for the commit target included, carries a signature that verifies  *)
(* against its authority id over the localized payload; a justification     *)
(* with a valid commit and a precommit whose signature does not verify is   *)
(* rejected with BadJustification.                                          *)
C6_AcceptedSignaturesVerify ==
    vres.op = "verify" =>
       LET ps == just.commit.precommits
           bad == {i \in 1..Len(ps) : ~SignatureVerifies(ps[i], just.round, vres.set_id)}
       IN /\ vres.outcome = "Ok" => bad = {}
          /\ (/\ validate_commit_has_ghost(just.commit, TheVoters,
                                           AncestryChain_new(just.votes_ancestries))
              /\ bad # {})
             => vres.outcome \in BadJustificationReasons

\* verify accepted a justification with two precommits, one of them for the
\* commit target itself.
C6_Witness ==
    /\ vres.op = "verify" /\ vres.outcome = "Ok"
    /\ Len(just.commit.precommits) = 2
    /\ \E i \in 1..2 :
          just.commit.precommits[i].precommit.target_hash = just.commit.target_hash

(* C7: verify returns Ok only if the set of hashes of the headers in        *)
(* votes_ancestries equals the visited set; adding to the votes_ancestries  *)
(* of an accepted justification a header whose hash no route visits yields  *)
(* BadJustification("unused headers").                                      *)
C7_AncestriesAreVisited ==
    /\ (vres.op \in {"verify", "add", "remove", "permute"} /\ vres.outcome = "Ok")
       => AncestryHashesOf(just) = VisitedOf(just)
    /\ (vres.op = "add" /\ HashOf(vres.header) \notin VisitedOf(vres.input))
       => vres.outcome = "unused headers"

\* An unvisited header was added to an accepted justification that has
\* headers of its own, and verify rejected the result.
C7_Witness ==
    /\ vres.op = "add" /\ vres.prev = "Ok"
    /\ vres.input.votes_ancestries # <<>>
    /\ HashOf(vres.header) \notin VisitedOf(vres.input)
    /\ vres.outcome = "unused headers"

C20_NoPadding ==
    /\ (vres.op = "verify" /\ vres.outcome = "Ok")
       => Len(just.votes_ancestries) = Cardinality(VisitedOf(just))
    /\ (vres.op = "add" /\ vres.prev = "Ok"
           /\ just.votes_ancestries = Append(vres.input.votes_ancestries, vres.header))
       => vres.outcome # "Ok"

NextDecode == DoDecodeAndVerify

SpecDecode == InitVerify /\ [][NextDecode]_vars

(* C4: whenever decode_and_verify_finalizes returns Ok, authorities of the  *)
(* voter set with combined weight strictly greater than 2/3 of the set's    *)
(* total weight have precommits in the commit, and every precommit target   *)
(* is the commit target or descends from it along the headers of            *)
(* votes_ancestries; a commit for which commit validation finds no ghost is *)
(* rejected with BadJustification("invalid commit").                        *)
C4_AcceptedHasQuorumOfDescendants ==
    vres.op = "decode" =>
       LET j == vres.input
           ps == j.commit.precommits
           signers == {id \in DOMAIN TheVoters : \E i \in 1..Len(ps) : ps[i].id = id}
       IN /\ vres.outcome = "Ok" =>
                /\ 3 * SumWeights(TheVoters, signers) > 2 * TotalWeight(TheVoters)
                /\ \A i \in 1..Len(ps) :
                      \/ ps[i].precommit.target_hash = j.commit.target_hash
                      \/ PathsDown(SeqToSet(j.votes_ancestries),
                                   ps[i].precommit.target_hash,
                                   j.commit.target_hash) # {}
          /\ (/\ vres.outcome \notin {"JustificationDecode", "invalid commit target"}
              /\ ~validate_commit_has_ghost(j.commit, TheVoters,
                                            AncestryChain_new(j.votes_ancestries)))
             => vres.outcome = "invalid commit"

\* An accepted justification with a precommit two headers above the commit
\* target.
C4_Witness ==
    /\ vres.op = "decode" /\ vres.outcome = "Ok"
    /\ \E i \in 1..Len(vres.input.commit.precommits) :
          vres.input.commit.precommits[i].precommit.target_number
             = vres.input.commit.target_number + 2

(* C5: whenever decode_and_verify_finalizes returns Ok(j), j's commit       *)
(* target (hash, number) equals the expected finalized target; a decoded    *)
(* justification whose commit target differs from it is rejected with       *)
(* BadJustification("invalid commit target") before any other semantic      *)
(* check runs.                                                              *)
C5_AcceptedTargetIsExpected ==
    vres.op = "decode" =>
       LET j == vres.input
           target == <<j.commit.target_hash, j.commit.target_number>>
       IN /\ vres.outcome = "Ok" => target = vres.expected
          /\ (vres.outcome # "JustificationDecode" /\ target # vres.expected)
             => vres.outcome = "invalid commit target"

\* Accepted with the expected target, from an encoding followed by further
\* bytes.
C5_Witness ==
    /\ vres.op = "decode" /\ vres.outcome = "Ok"
    /\ vres.how = "trailing"
    /\ vres.input = just
    /\ vres.expected = <<just.commit.target_hash, just.commit.target_number>>

-----------------------------------------------------------------------------
(* AncestryChain::ancestry, one turn of its loop at a time.  The walk is    *)
(* the record of the call: the headers the index was built from, base and   *)
(* block, the loop's current_hash and route, the number of index lookups    *)
(* made, and the outcome once the call has returned.                        *)

\* The turn that leaves base on the route: no route.pop().
ancestry_step_KeepBase(chain, w) ==
    IF w.current_hash = w.base THEN [w EXCEPT !.outcome = "Ok"]
    ELSE IF w.current_hash \in DOMAIN chain
         THEN LET parent == chain[w.current_hash].parent_hash
              IN [w EXCEPT !.current_hash = parent, !.route = Append(@, parent),
                           !.lookups = @ + 1]
         ELSE [w EXCEPT !.route = <<>>, !.lookups = @ + 1, !.outcome = "NotDescendent"]

\* The turn that fetches the header a second time to read its parent hash.
ancestry_step_Refetch(chain, w) ==
    IF w.current_hash = w.base THEN [w EXCEPT !.route = Pop(@), !.outcome = "Ok"]
    ELSE IF w.current_hash \in DOMAIN chain
         THEN LET parent == chain[w.current_hash].parent_hash
              IN [w EXCEPT !.current_hash = parent, !.route = Append(@, parent),
                           !.lookups = @ + 2]
         ELSE [w EXCEPT !.route = <<>>, !.lookups = @ + 1, !.outcome = "NotDescendent"]

\* One turn of the loop: leave at base (then route.pop() and Ok), or look
\* current_hash up and either move to the parent or return NotDescendent.
ancestry_step(chain, w) ==
    IF w.current_hash = w.base THEN [w EXCEPT !.route = Pop(@), !.outcome = "Ok"]
    ELSE IF w.current_hash \in DOMAIN chain
         THEN LET parent == chain[w.current_hash].parent_hash
              IN [w EXCEPT !.current_hash = parent, !.route = Append(@, parent),
                           !.lookups = @ + 1]
         ELSE [w EXCEPT !.route = <<>>, !.lookups = @ + 1, !.outcome = "NotDescendent"]

\* A sibling of Vote2.
Fork2 == MkHeader(HashOf(Vote1), 2, OnesHash)

WalkHeaders == {Vote1, Vote2, Vote3, Fork2}

WalkHashes == {HashOf(h) : h \in WalkHeaders} \cup {ZeroHash, OnesHash}

InitWalk ==
    /\ NumBridges = 0
    /\ TrackedBridges = <<>>
    /\ call = NoCall
    /\ just = NoJust
    /\ anc = NoAnc
    /\ \E hs \in SeqsUpTo(WalkHeaders, MaxIndex), base \in WalkHashes,
          block \in WalkHashes :
          vres = [op |-> "ancestry", headers |-> hs, base |-> base, block |-> block,
                  current_hash |-> block, route |-> <<>>, lookups |-> 0,
                  outcome |-> "walking"]

DoAncestryStep ==
    /\ vres.outcome = "walking"
    /\ vres' = ancestry_step(AncestryChain_new(vres.headers), vres)
    /\ UNCHANGED <<NumBridges, TrackedBridges, call, just, anc>>

NextWalk == DoAncestryStep

\* The loop runs until it returns.
SpecWalk == InitWalk /\ [][NextWalk]_vars /\ WF_vars(NextWalk)

\* The hashes of the headers the index holds.
IndexKeys(hs) == {HashOf(h) : h \in hs}

\* The parent hash of the header of hs that hashes to x.
ParentIn(hs, x) == (CHOOSE h \in hs : HashOf(h) = x).parent_hash

\* The hashes met from the hashes of S along parent pointers through hs in at
\* most n moves, none made from base or from a hash the index lacks.
RECURSIVE MetFrom(_, _, _, _)
MetFrom(hs, base, S, n) ==
    IF n = 0 THEN S
    ELSE MetFrom(hs, base,
                 S \cup {ParentIn(hs, x) : x \in {y \in S : y # base /\ y \in IndexKeys(hs)}},
                 n - 1)

(* C21: ancestry(base, block) returns Ok(route) with route the hashes        *)
(* strictly between block and base in walking order, each the parent hash    *)
(* of the one before it through the index (empty when block = base or base   *)
(* is block's parent), and returns NotDescendent exactly when the walk meets *)
(* a hash that is neither base nor a key of the index.                       *)
C21_RouteIsStrictlyBetween ==
    (vres.op = "ancestry" /\ vres.outcome # "walking") =>
       LET hs == SeqToSet(vres.headers)
           full == <<vres.block>> \o vres.route \o <<vres.base>>
           met == MetFrom(hs, vres.base, {vres.block}, Cardinality(hs) + 1)
           stuck == \E x \in met : x # vres.base /\ x \notin IndexKeys(hs)
           called == ancestry(AncestryChain_new(vres.headers), vres.base, vres.block)
       IN /\ vres.outcome \in {"Ok", "NotDescendent"}
          /\ (vres.outcome = "NotDescendent") <=> stuck
          /\ vres.outcome = "Ok" =>
                /\ vres.block = vres.base => vres.route = <<>>
                /\ vres.block # vres.base =>
                      \A i \in 1..(Len(full) - 1) :
                          /\ full[i] # vres.base
                          /\ full[i] \in IndexKeys(hs)
                          /\ ParentIn(hs, full[i]) = full[i + 1]
                /\ \A i \in 1..Len(vres.route) :
                      vres.route[i] \notin {vres.block, vres.base}
                /\ (vres.block \in IndexKeys(hs) /\ ParentIn(hs, vres.block) = vres.base)
                   => vres.route = <<>>
          /\ called.ok = (vres.outcome = "Ok")
          /\ called.route = vres.route

\* A route of two hashes: from the third header down to the parent of the
\* first.
C21_Witness ==
    /\ vres.op = "ancestry" /\ vres.outcome = "Ok"
    /\ vres.block = HashOf(Vote3) /\ vres.base = ZeroHash
    /\ vres.route = <<HashOf(Vote2), HashOf(Vote1)>>

(* C22: for every index built from votes_ancestries and every (base, block)  *)
(* the walk returns, with a route or NotDescendent, having fetched at most   *)
(* as many headers as the index holds (and made at most one lookup that      *)
(* finds none).                                                              *)
C22_WalkReturnsWithinIndex ==
    <>[](/\ vres.outcome \in {"Ok", "NotDescendent"}
         /\ LET size == Cardinality(DOMAIN AncestryChain_new(vres.headers))
                missed == IF vres.outcome = "NotDescendent" THEN 1 ELSE 0
            IN /\ vres.lookups - missed <= size
               /\ size <= Len(vres.headers))

\* The walk went through every header of an index of three and returned.
C22_Witness ==
    /\ vres.op = "ancestry" /\ vres.outcome = "Ok"
    /\ Cardinality(SeqToSet(vres.headers)) = 3
    /\ vres.lookups = 3

-----------------------------------------------------------------------------
(* from_commit: building a justification from a commit and the client's     *)
(* headers.  The client is the set of headers it knows, found by hash.      *)

\* client.header(&BlockId::Hash(hash)): Some(header) or None.
client_header(client, hash) ==
    IF \E h \in client : HashOf(h) = hash
    THEN [some |-> TRUE, header |-> CHOOSE h \in client : HashOf(h) = hash]
    ELSE [some |-> FALSE, header |-> MkHeader(ZeroHash, 0, ZeroHash)]

\* The inner loop pushing every header it passes, seen before or not.
RECURSIVE from_commit_walk_NoDedup(_, _, _, _, _)
from_commit_walk_NoDedup(client, commit, current_hash, votes_ancestries_hashes, votes_ancestries) ==
    IF current_hash = commit.target_hash
    THEN [ok |-> TRUE, hashes |-> votes_ancestries_hashes,
          ancestries |-> votes_ancestries]
    ELSE LET found == client_header(client, current_hash) IN
         IF ~found.some \/ found.header.number <= commit.target_number
         THEN [ok |-> FALSE, hashes |-> votes_ancestries_hashes,
               ancestries |-> votes_ancestries]
         ELSE from_commit_walk_NoDedup(client, commit, found.header.parent_hash,
                                       votes_ancestries_hashes \cup {current_hash},
                                       Append(votes_ancestries, found.header))

\* The inner `loop` for one precommit, from current_hash with the hashes and
\* headers collected so far.
RECURSIVE from_commit_walk(_, _, _, _, _)
from_commit_walk(client, commit, current_hash, votes_ancestries_hashes, votes_ancestries) ==
    IF current_hash = commit.target_hash
    THEN [ok |-> TRUE, hashes |-> votes_ancestries_hashes,
          ancestries |-> votes_ancestries]
    ELSE LET found == client_header(client, current_hash) IN
         IF ~found.some \/ found.header.number <= commit.target_number
         THEN [ok |-> FALSE, hashes |-> votes_ancestries_hashes,
               ancestries |-> votes_ancestries]
         ELSE from_commit_walk(client, commit, found.header.parent_hash,
                               votes_ancestries_hashes \cup {current_hash},
                               IF current_hash \in votes_ancestries_hashes
                               THEN votes_ancestries
                               ELSE Append(votes_ancestries, found.header))

\* The loop over commit.precommits, entered at precommit i.
RECURSIVE from_commit_loop(_, _, _, _, _)
from_commit_loop(client, commit, i, votes_ancestries_hashes, votes_ancestries) ==
    IF i > Len(commit.precommits)
    THEN [ok |-> TRUE, hashes |-> votes_ancestries_hashes,
          ancestries |-> votes_ancestries]
    ELSE LET walked == from_commit_walk(client, commit,
                                        commit.precommits[i].precommit.target_hash,
                                        votes_ancestries_hashes, votes_ancestries)
         IN IF ~walked.ok THEN walked
            ELSE from_commit_loop(client, commit, i + 1, walked.hashes,
                                  walked.ancestries)

\* Ok(justification) or BadJustification("invalid precommits for target commit").
from_commit(client, round, commit) ==
    LET looped == from_commit_loop(client, commit, 1, {}, <<>>)
    IN IF looped.ok
       THEN [outcome |-> "Ok",
             justification |-> MkJustification(round, commit, looped.ancestries)]
       ELSE [outcome |-> "invalid precommits for target commit",
             justification |-> NoJust]

(* The commits from_commit is given: precommits of the two voters, signed   *)
(* for the round and the set, for headers of a chain of three and a fork;   *)
(* the client knows the first header and any of the others.                 *)

Clients == {{Vote1} \cup S : S \in SUBSET {Vote2, Vote3, Fork2}}

CommitPrecommits(round) ==
    {MkSignedPrecommit(MkPrecommit(HashOf(h), h.number), id,
                       Sign(id, localized_payload(round, 0,
                                    MessagePrecommit(MkPrecommit(HashOf(h), h.number))))) :
        h \in WalkHeaders, id \in DOMAIN TheVoters}

InitFromCommit ==
    /\ NumBridges = 0
    /\ TrackedBridges = <<>>
    /\ call = NoCall
    /\ just = NoJust
    /\ anc = NoAnc
    /\ \E round \in Rounds, t \in CommitTargets, client \in Clients,
          n \in 0..MaxPrecommits :
          \E ps \in [1..n -> CommitPrecommits(round)] :
              vres = [op |-> "none", client |-> client, round |-> round,
                      commit |-> MkCommit(HashOf(t), t.number, ps),
                      outcome |-> "none", verified |-> "none"]

DoFromCommit ==
    /\ vres.op = "none"
    /\ LET built == from_commit(vres.client, vres.round, vres.commit)
       IN /\ vres' = [vres EXCEPT !.op = "from_commit", !.outcome = built.outcome]
          /\ just' = built.justification
    /\ UNCHANGED <<NumBridges, TrackedBridges, call, anc>>

\* verify on the justification from_commit built.
DoVerifyBuilt ==
    /\ vres.op = "from_commit" /\ vres.outcome = "Ok"
    /\ \E set_id \in SetIds :
          vres' = [vres EXCEPT !.op = "verify_built",
                               !.verified = verify(just, set_id, TheVoters)]
    /\ UNCHANGED <<NumBridges, TrackedBridges, call, just, anc>>

NextFromCommit == DoFromCommit \/ DoVerifyBuilt

SpecFromCommit == InitFromCommit /\ [][NextFromCommit]_vars

\* The precommits of a commit whose target is not the commit target.
AboveTarget(commit) ==
    {k \in 1..Len(commit.precommits) :
        commit.precommits[k].precommit.target_hash # commit.target_hash}

\* The headers of hs on the ways from the precommit targets down to the
\* commit target, the commit target's own header excluded.
HeadersOnPaths(hs, commit) ==
    UNION {{path[i] : i \in 1..Len(path)} :
           path \in UNION {PathsDown(hs, commit.precommits[k].precommit.target_hash,
                                     commit.target_hash) : k \in AboveTarget(commit)}}

(* C23: every justification from_commit builds passes verify's ancestry      *)
(* checks: its votes_ancestries holds, without duplicates, exactly the       *)
(* headers on the ways from each precommit target down to (excluding) the    *)
(* commit target, so every precommit's ancestry query succeeds and the       *)
(* hashes of votes_ancestries are the visited set; from_commit fails,        *)
(* rather than loop, exactly when some precommit target does not descend     *)
(* from the commit target through known headers above the commit target's    *)
(* number.                                                                   *)
C23_BuiltPassesAncestryChecks ==
    (vres.op \in {"from_commit", "verify_built"}) =>
       LET commit == vres.commit
           above == {h \in vres.client : h.number > commit.target_number}
           descends == \A k \in AboveTarget(commit) :
                          PathsDown(above, commit.precommits[k].precommit.target_hash,
                                    commit.target_hash) # {}
       IN /\ vres.outcome \in {"Ok", "invalid precommits for target commit"}
          /\ (vres.outcome = "Ok") <=> descends
          /\ vres.outcome = "Ok" =>
                LET va == just.votes_ancestries
                    chain == AncestryChain_new(va)
                IN /\ just.commit = commit /\ just.round = vres.round
                   /\ \A i, k \in 1..Len(va) : i # k => HashOf(va[i]) # HashOf(va[k])
                   /\ SeqToSet(va) = HeadersOnPaths(vres.client, commit)
                   /\ \A k \in AboveTarget(commit) :
                         ancestry(chain, commit.target_hash,
                                  commit.precommits[k].precommit.target_hash).ok
                   /\ AncestryHashesOf(just) = VisitedOf(just)
                   /\ AncestryHashesOf(just) =
                         UNION {SeqToSet(ancestry(chain, commit.target_hash,
                                    commit.precommits[k].precommit.target_hash).route)
                                \cup {commit.precommits[k].precommit.target_hash} :
                                k \in AboveTarget(commit)}
          /\ vres.op = "verify_built" =>
                vres.verified \notin {"invalid precommit ancestry proof", "unused headers"}

\* Built from precommits on both branches above the commit target, three
\* headers in all, and accepted by verify.
C23_Witness ==
    /\ vres.op = "verify_built" /\ vres.verified = "Ok"
    /\ Len(just.votes_ancestries) = 3
    /\ Fork2 \in SeqToSet(just.votes_ancestries)

====
